---- MODULE Spec2Model ----
(***************************************************************************)
(* Label-selector parser of src/lib.rs.                                    *)
(*                                                                         *)
(* A string is a sequence of one-character strings; offsets are 0-based    *)
(* byte offsets as in the source (every character of the model is ASCII),  *)
(* so the character at offset p of s is s[p+1].                            *)
(*                                                                         *)
(* The four tokenizers are derived lexers: each call skips the skip class, *)
(* then takes the longest match among the token patterns (a literal token  *)
(* wins a tie against a regex), and when nothing matches reports an error  *)
(* token of one character.                                                 *)
(***************************************************************************)
EXTENDS Integers, Sequences, FiniteSets, TLC

\* ------------------------------------------------------------ characters

Letters ==
  {"a", "b", "c", "d", "e", "f", "g", "h", "i", "j", "k", "l", "m",
   "n", "o", "p", "q", "r", "s", "t", "u", "v", "w", "x", "y", "z"}

Digits == {"0", "1", "2", "3", "4", "5", "6", "7", "8", "9"}

\* \w
WordChars == Letters \cup Digits \cup {"_"}

\* [-./\w]
KeyChars == WordChars \cup {"-", ".", "/"}

\* [-.\w]
ValueChars == WordChars \cup {"-", "."}

\* \s: the skip whitespace and, besides it, the whitespace the skip classes
\* leave out ("\r" stands for it)
SpaceChars == {" ", "\t", "\n", "\f", "\r"}

\* [-.\w\s,]
TopListChars == ValueChars \cup SpaceChars \cup {","}

\* [\w\s,]
SetListChars == WordChars \cup SpaceChars \cup {","}

\* [a-zA-Z_-]
MemberChars == Letters \cup {"_", "-"}

\* #[logos(skip r"[, \t\n\f]+")] of ParsedExpression
TopSkip == {",", " ", "\t", "\n", "\f"}

\* #[logos(skip r"[ \t\n\f]+")] of EqualityToken
EqualitySkip == {" ", "\t", "\n", "\f"}

\* #[logos(skip r"[, \t\n\f]+")] of SetToken
SetSkip == {",", " ", "\t", "\n", "\f"}

\* #[logos(skip r"[, \(\)\t\n\f]+")] of ValuesListToken
ValuesListSkip == {",", " ", "(", ")", "\t", "\n", "\f"}

\* ------------------------------------------------------------ scanning

\* The offset after the longest run of characters of cls that starts at p.
RECURSIVE RunEnd(_, _, _)
RunEnd(s, p, cls) ==
  IF p < Len(s) /\ s[p + 1] \in cls THEN RunEnd(s, p + 1, cls) ELSE p

\* s[from, to)
Slice(s, from, to) == SubSeq(s, from + 1, to)

\* The literal lit stands at offset p of s.
LitAt(s, p, lit) ==
  /\ p + Len(lit) <= Len(s)
  /\ Slice(s, p, p + Len(lit)) = lit

CharAt(s, p, c) == p < Len(s) /\ s[p + 1] = c

NoMatch == 0 - 1

Max2(a, b) == IF a >= b THEN a ELSE b

\* ------------------------------------------------------------ Expression

In(key, values) == [variant |-> "In", key |-> key, value |-> <<>>, values |-> values]
NotIn(key, values) == [variant |-> "NotIn", key |-> key, value |-> <<>>, values |-> values]
Equal(key, value) == [variant |-> "Equal", key |-> key, value |-> value, values |-> {}]
NotEqual(key, value) == [variant |-> "NotEqual", key |-> key, value |-> value, values |-> {}]
Exists(key) == [variant |-> "Exists", key |-> key, value |-> <<>>, values |-> {}]
DoesNotExist(key) == [variant |-> "DoesNotExist", key |-> key, value |-> <<>>, values |-> {}]

NoExpression == [variant |-> "", key |-> <<>>, value |-> <<>>, values |-> {}]

\* Option<Expression>
SomeExpr(e) == [some |-> TRUE, val |-> e]
NoneExpr == [some |-> FALSE, val |-> NoExpression]

\* values.into_iter().collect::<BTreeSet<String>>()
CollectSet(values) == {values[i] : i \in 1..Len(values)}

\* ------------------------------------------------------------ ValuesListToken

\* parse_value_list: every token of the list must be a Value.
RECURSIVE ValueListFrom(_, _, _)
ValueListFrom(src, p, acc) ==
  LET st == RunEnd(src, p, ValuesListSkip)
  IN  IF st = Len(src) THEN [some |-> TRUE, val |-> acc]
      ELSE IF src[st + 1] \in MemberChars
      THEN LET e == RunEnd(src, st, MemberChars)
           IN  ValueListFrom(src, e, Append(acc, Slice(src, st, e)))
      ELSE [some |-> FALSE, val |-> <<>>]

\* Faulty variant of parse_value_list: what is no member is dropped, the rest kept.
parse_value_list_lossy(source) ==
  LET kept == SelectSeq(source, LAMBDA c : c \in MemberChars \cup ValuesListSkip)
  IN  ValueListFrom(kept, 0, <<>>)

parse_value_list(source) == ValueListFrom(source, 0, <<>>)

\* ------------------------------------------------------------ SetToken

SetTok(kind, text, values, end) ==
  [kind |-> kind, text |-> text, values |-> values, end |-> end]

\* r"\([\w\s,]+\)" with its callback
SetValuesList(src, st) ==
  LET l == RunEnd(src, st + 1, SetListChars)
  IN  IF l > st + 1 /\ CharAt(src, l, ")")
      THEN LET vl == parse_value_list(Slice(src, st, l + 1))
           IN  IF vl.some THEN SetTok("ValuesList", <<>>, vl.val, l + 1)
               ELSE SetTok("Err", <<>>, <<>>, l + 1)
      ELSE SetTok("Err", <<>>, <<>>, st + 1)

\* r"\w+", with the tokens "in" and "notin" taking the words that equal them
SetWord(src, st) ==
  LET e == RunEnd(src, st, WordChars)
      w == Slice(src, st, e)
  IN  IF w = <<"i", "n">> THEN SetTok("In", <<>>, <<>>, e)
      ELSE IF w = <<"n", "o", "t", "i", "n">> THEN SetTok("NotIn", <<>>, <<>>, e)
      ELSE SetTok("Value", w, <<>>, e)

\* SetToken::lexer(source).next() at offset p; kind "End" is None
SetNext(src, p) ==
  LET st == RunEnd(src, p, SetSkip)
  IN  IF st = Len(src) THEN SetTok("End", <<>>, <<>>, st)
      ELSE IF src[st + 1] = "!" THEN SetTok("Not", <<>>, <<>>, st + 1)
      ELSE IF src[st + 1] = "(" THEN SetValuesList(src, st)
      ELSE IF src[st + 1] \in WordChars THEN SetWord(src, st)
      ELSE SetTok("Err", <<>>, <<>>, st + 1)

\* The SetToken::Not arm of parse_set
ParseSetNot(src, t1) ==
  LET t2 == SetNext(src, t1.end)
  IN  IF t2.kind = "Value" THEN SomeExpr(DoesNotExist(t2.text)) ELSE NoneExpr

\* The SetToken::Value(key) arm of parse_set
ParseSetValue(src, t1) ==
  LET op == SetNext(src, t1.end)
  IN  IF op.kind = "End" THEN SomeExpr(Exists(t1.text))
      ELSE IF op.kind = "Err" THEN NoneExpr
      ELSE LET value == SetNext(src, op.end)
           IN  IF value.kind \in {"End", "Err"} THEN NoneExpr
               ELSE IF op.kind = "In" /\ value.kind = "ValuesList"
               THEN SomeExpr(In(t1.text, CollectSet(value.values)))
               ELSE IF op.kind = "NotIn" /\ value.kind = "ValuesList"
               THEN SomeExpr(NotIn(t1.text, CollectSet(value.values)))
               ELSE NoneExpr

parse_set(source) ==
  LET key == SetNext(source, 0)
  IN  IF key.kind \in {"End", "Err"} THEN NoneExpr
      ELSE IF key.kind = "Not" THEN ParseSetNot(source, key)
      ELSE IF key.kind = "Value" THEN ParseSetValue(source, key)
      ELSE NoneExpr

\* ------------------------------------------------------------ EqualityToken

EqTok(kind, text, end) == [kind |-> kind, text |-> text, end |-> end]

\* Faulty variant of EqualityNext: Value is lexed with the value class [-.\w], which
\* has no "/".
EqualityNextNarrow(src, p) ==
  LET st == RunEnd(src, p, EqualitySkip)
  IN  IF st = Len(src) THEN EqTok("End", <<>>, st)
      ELSE IF LitAt(src, st, <<"=", "=">>) THEN EqTok("Equal", <<>>, st + 2)
      ELSE IF LitAt(src, st, <<"=">>) THEN EqTok("Equal", <<>>, st + 1)
      ELSE IF LitAt(src, st, <<"!", "=">>) THEN EqTok("NotEqual", <<>>, st + 2)
      ELSE IF src[st + 1] \in ValueChars
      THEN LET e == RunEnd(src, st, ValueChars)
           IN  EqTok("Value", Slice(src, st, e), e)
      ELSE EqTok("Err", <<>>, st + 1)

\* EqualityToken::lexer(source).next() at offset p
EqualityNext(src, p) ==
  LET st == RunEnd(src, p, EqualitySkip)
  IN  IF st = Len(src) THEN EqTok("End", <<>>, st)
      ELSE IF LitAt(src, st, <<"=", "=">>) THEN EqTok("Equal", <<>>, st + 2)
      ELSE IF LitAt(src, st, <<"=">>) THEN EqTok("Equal", <<>>, st + 1)
      ELSE IF LitAt(src, st, <<"!", "=">>) THEN EqTok("NotEqual", <<>>, st + 2)
      ELSE IF src[st + 1] \in KeyChars
      THEN LET e == RunEnd(src, st, KeyChars)
           IN  EqTok("Value", Slice(src, st, e), e)
      ELSE EqTok("Err", <<>>, st + 1)

parse_equality(source) ==
  LET key == EqualityNext(source, 0)
      op == EqualityNext(source, key.end)
      value == EqualityNext(source, op.end)
  IN  IF key.kind \in {"End", "Err"} THEN NoneExpr
      ELSE IF op.kind \in {"End", "Err"} THEN NoneExpr
      ELSE IF value.kind \in {"End", "Err"} THEN NoneExpr
      ELSE IF key.kind = "Value" /\ op.kind = "Equal" /\ value.kind = "Value"
      THEN SomeExpr(Equal(key.text, value.text))
      ELSE IF key.kind = "Value" /\ op.kind = "NotEqual" /\ value.kind = "Value"
      THEN SomeExpr(NotEqual(key.text, value.text))
      ELSE NoneExpr

\* ------------------------------------------------------------ ParsedExpression

\* r"[-./\w]+\s+in\s+\([-.\w\s,]+\)" and the same with notin: the offset
\* after the match that starts at p, or NoMatch
MatchSetPattern(s, p, kw) ==
  LET k == RunEnd(s, p, KeyChars)
      w == RunEnd(s, k, SpaceChars)
      x == RunEnd(s, w + Len(kw), SpaceChars)
      l == RunEnd(s, x + 1, TopListChars)
  IN  IF /\ k > p
         /\ w > k
         /\ LitAt(s, w, kw)
         /\ x > w + Len(kw)
         /\ CharAt(s, x, "(")
         /\ l > x + 1
         /\ CharAt(s, l, ")")
      THEN l + 1
      ELSE NoMatch

\* r"\![-./\w]+"
MatchNotPattern(s, p) ==
  LET k == RunEnd(s, p + 1, KeyChars)
  IN  IF CharAt(s, p, "!") /\ k > p + 1 THEN k ELSE NoMatch

\* r"[-./\w]+"
MatchKeyPattern(s, p) ==
  LET k == RunEnd(s, p, KeyChars)
  IN  IF k > p THEN k ELSE NoMatch

\* r"[-./\w]+\s*=\s*[-.\w]+", and the same with == and !=
MatchEqualityPattern(s, p, op) ==
  LET k == RunEnd(s, p, KeyChars)
      w == RunEnd(s, k, SpaceChars)
      x == RunEnd(s, w + Len(op), SpaceChars)
      v == RunEnd(s, x, ValueChars)
  IN  IF k > p /\ LitAt(s, w, op) /\ v > x THEN v ELSE NoMatch

KwIn == <<"i", "n">>
KwNotIn == <<"n", "o", "t", "i", "n">>

\* The longest match of a pattern whose callback is parse_set
SetMatchEnd(s, p) ==
  Max2(Max2(MatchSetPattern(s, p, KwIn), MatchSetPattern(s, p, KwNotIn)),
       Max2(MatchNotPattern(s, p), MatchKeyPattern(s, p)))

\* The longest match of a pattern whose callback is parse_equality
EqualityMatchEnd(s, p) ==
  Max2(MatchEqualityPattern(s, p, <<"=">>),
       Max2(MatchEqualityPattern(s, p, <<"=", "=">>),
            MatchEqualityPattern(s, p, <<"!", "=">>)))

\* What one call of the lexer leaves: the token (Some(Ok), Some(Err) or None)
\* and the span.
LexResult(tag, expr, start, end) ==
  [tag |-> tag, expr |-> expr, start |-> start, end |-> end]

\* The callback's Option<Expression> as the token of the match [st, e)
Reduce(parsed, st, e) ==
  IF parsed.some THEN LexResult("Ok", parsed.val, st, e)
  ELSE LexResult("Err", NoExpression, st, e)

\* Faulty variant of ErrorToken: the error runs on to the next separator.
ErrorTokenToSeparator(s, st) ==
  LexResult("Err", NoExpression, st, RunEnd(s, st + 1, Letters \cup Digits \cup {"(", ")", "=", "!", ".", "-", "/", "_", "\r"}))

\* Faulty variant of ErrorToken: the error consumes nothing.
ErrorTokenEmpty(s, st) == LexResult("Err", NoExpression, st, st)

\* The token of a character at offset st that starts no pattern: an error of
\* that one character
ErrorToken(s, st) == LexResult("Err", NoExpression, st, st + 1)

\* The token of the longest match at offset st, se the longest match of a
\* pattern whose callback is parse_set and ee of one whose callback is
\* parse_equality
LexerMatch(s, st, se, ee) ==
  IF se = NoMatch /\ ee = NoMatch THEN ErrorToken(s, st)
  ELSE IF ee > se THEN Reduce(parse_equality(Slice(s, st, ee)), st, ee)
  ELSE Reduce(parse_set(Slice(s, st, se)), st, se)

\* The token that starts at offset st, the skip class skipped
LexerAt(s, st) ==
  IF st = Len(s) THEN LexResult("None", NoExpression, st, st)
  ELSE LexerMatch(s, st, SetMatchEnd(s, st), EqualityMatchEnd(s, st))

\* ParsedExpression's lexer.next() with the cursor at token_end = pos
LexerNext(s, pos) == LexerAt(s, RunEnd(s, pos, TopSkip))

\* Result<Option<ParsedExpression>> of parse_expression, with the span the
\* lexer is left at
StepResult(tag, expr, text, start, end) ==
  [tag |-> tag, expr |-> expr, text |-> text, start |-> start, end |-> end]

\* The match of parse_expression on the token t of the lexer
MapToken(s, t) ==
  IF t.tag = "Err"
  THEN StepResult("Err", NoExpression, Slice(s, t.start, t.end), t.start, t.end)
  ELSE StepResult(t.tag, t.expr, <<>>, t.start, t.end)

parse_expression(s, pos) == MapToken(s, LexerNext(s, pos))

\* ------------------------------------------------------------ inputs

\* Longest free-form selector
MaxLen == 4
\* Longest key and longest value of an equality fragment
MaxKeyLen == 2
\* Longest text between the parentheses of a set fragment
MaxListLen == 3
\* Calls of parse_expression made after the first None
MaxNoneCalls == 2

\* All strings over alphabet of at most n characters
Strings(alphabet, n) == UNION {[1..k -> alphabet] : k \in 0..n}

\* data of tests::expression_lexer
ExpressionLexerData ==
  <<"a", "=", "=", "b", ",", ",", "f", "o", "o", ".", "b", "a", "r", ".", "b",
    "a", "z", "/", "b", "-", "y", "_", ".", "6", "=", "c", "_", "8", ".", "-",
    "z", ",", "c", "!", "=", "d", ",", "a", " ", "i", "n", " ", "(", "a", ",",
    "b", ",", " ", "c", ")", ",", " ", "a", " ", "n", "o", "t", "i", "n", " ",
    "(", "a", ")", ",", " ", "c", ",", "!", "a", ",", "a", "(", ")", "d">>

\* The tail of that data the test's last five assertions are about
StrayParens == <<"a", "(", ")", "d">>

TestInputs ==
  {ExpressionLexerData, StrayParens,
   <<"k", "e", "y", " ", "i", "n", " ", "(", ")">>,
   <<"k", "e", "y", " ", "n", "o", "t", "i", "n", " ", "(", ")">>,
   <<"a", " ", "i", "n", " ", "(", "c", ",", "a", ",", "b", ",", "a", ")">>,
   <<"a", " ", "i", "n", " ", "(", "b", "(", "c", ")">>,
   <<"a", "\r", "b">>, <<"i", "n">>}

GeneralChars == {"a", ".", " ", ",", "(", ")", "=", "!"}

GeneralInputs == Strings(GeneralChars, MaxLen) \cup TestInputs

\* key ws? op ws? value, alone or followed by a separator and a bare key
EqualityKeyChars == {"a", "-", ".", "/"}
EqualityValues ==
  {<<"b">>, <<"1">>, <<"-", ".">>, <<"c", "_", "8", ".", "-", "z">>}
EqualityOps == {<<"=">>, <<"=", "=">>, <<"!", "=">>}
OptionalSpace == {<<>>, <<" ">>}
EqualityTails == {<<>>, <<",", "c">>}

EqualityInputs ==
  {k \o w1 \o op \o w2 \o v \o tail :
     k \in Strings(EqualityKeyChars, MaxKeyLen) \ {<<>>},
     w1 \in OptionalSpace, op \in EqualityOps, w2 \in OptionalSpace,
     v \in EqualityValues, tail \in EqualityTails}

\* key ws (in|notin) ws "(" list ")", key and !key, alone or followed by a
\* separator and a bare key
SetKeys == {<<"a">>, <<"a", ".", "b">>, <<"k", "_", "1">>}
BareKeys ==
  SetKeys \cup {<<"x", "/", "y">>, <<"a", "-", "b">>, <<"i", "n", "n">>}
SetKeywords == {KwIn, KwNotIn}
SetListAlphabet == {"a", "b", "-", "1", ".", ",", " "}
SetTails == {<<>>, <<",", "c">>}

SetInputs ==
  {k \o <<" ">> \o kw \o <<" ", "(">> \o l \o <<")">> \o tail :
     k \in SetKeys, kw \in SetKeywords,
     l \in Strings(SetListAlphabet, MaxListLen), tail \in SetTails}
  \cup {k \o tail : k \in BareKeys, tail \in SetTails}
  \cup {<<"!">> \o k \o tail : k \in BareKeys, tail \in SetTails}

\* ------------------------------------------------------------ state

VARIABLES
  input,        \* the selector string
  token_start,  \* lexer.span().start of the caller's lexer
  token_end,    \* lexer.span().end of the caller's lexer: its cursor
  results,      \* what the caller's calls of parse_expression returned, in order
  selector_end, \* the cursor of the lexer try_from owns
  expressions,  \* try_from's vec
  returned,     \* try_from's return value, once it returned
  steps         \* calls of parse_expression try_from made

vars ==
  <<input, token_start, token_end, results, selector_end, expressions, returned, steps>>

Running == [tag |-> "Running", error |-> StepResult("None", NoExpression, <<>>, 0, 0)]

InitOver(inputs) ==
  /\ input \in inputs
  /\ token_start = 0
  /\ token_end = 0
  /\ results = <<>>
  /\ selector_end = 0
  /\ expressions = <<>>
  /\ returned = Running
  /\ steps = 0

Init == InitOver(GeneralInputs)
InitEquality == InitOver(EqualityInputs)
InitSet == InitOver(SetInputs)

NoneCalls == Cardinality({i \in 1..Len(results) : results[i].tag = "None"})

\* The caller's lexer and what the caller has seen, after a call returned r
Returned(r) ==
  /\ token_start' = r.start
  /\ token_end' = r.end
  /\ results' = Append(results, r)

\* The caller calls parse_expression(&mut lexer) once more.
ParseExpression ==
  /\ NoneCalls < MaxNoneCalls
  /\ Returned(parse_expression(input, token_end))
  /\ UNCHANGED <<input, selector_end, expressions, returned, steps>>

\* Faulty variant of TryFromOutcome: an error is skipped and the loop goes on.
TryFromOutcomeSkipping(r) ==
  IF r.tag = "None" THEN [tag |-> "Ok", error |-> Running.error] ELSE Running

\* What one evaluation of try_from's loop condition does with the result r of
\* parse_expression: `?` returns the error, Some pushes, None leaves the loop
\* and returns Ok.
TryFromOutcome(r) ==
  IF r.tag = "Err" THEN [tag |-> "Err", error |-> r]
  ELSE IF r.tag = "None" THEN [tag |-> "Ok", error |-> Running.error]
  ELSE Running

TryFromPush(exprs, r) == IF r.tag = "Ok" THEN Append(exprs, r.expr) ELSE exprs

\* try_from's state after its call of parse_expression returned r
TryFromStep(r) ==
  /\ selector_end' = r.end
  /\ steps' = steps + 1
  /\ expressions' = TryFromPush(expressions, r)
  /\ returned' = TryFromOutcome(r)

\* One iteration of the loop of Expressions::try_from
TryFrom ==
  /\ returned.tag = "Running"
  /\ TryFromStep(parse_expression(input, selector_end))
  /\ UNCHANGED <<input, token_start, token_end, results>>

Next == ParseExpression \/ TryFrom

Spec == Init /\ [][Next]_vars
SpecEquality == InitEquality /\ [][Next]_vars
SpecSet == InitSet /\ [][Next]_vars

\* ------------------------------------------------------------ the grammar of the claims
\* The selector grammar the claims are stated over, read left to right:
\*   key [-./\w]+, value [-.\w]+, list member [a-zA-Z_-]+,
\*   separators and whitespace: comma, space, tab, newline, form-feed.

GrammarWs == {" ", "\t", "\n", "\f"}
GrammarSeparators == GrammarWs \cup {","}
GrammarListText == MemberChars \cup Digits \cup {"."} \cup GrammarSeparators

\* The members of a list text: its maximal runs of non-separators
RECURSIVE GrammarMembers(_, _)
GrammarMembers(text, p) ==
  LET st == RunEnd(text, p, GrammarSeparators)
      e == RunEnd(text, st, GrammarListText \ GrammarSeparators)
  IN  IF st >= Len(text) \/ e = st THEN {}
      ELSE {Slice(text, st, e)} \cup GrammarMembers(text, e)

GrammarShape(form, key, op, value, list, end) ==
  [form |-> form, key |-> key, op |-> op, value |-> value, list |-> list, end |-> end]

NoShape == GrammarShape("none", <<>>, <<>>, <<>>, <<>>, 0)

\* key ws+ (in|notin) ws+ "(" list ")" at offset p
GrammarSetShape(s, p, kw) ==
  LET k == RunEnd(s, p, KeyChars)
      w == RunEnd(s, k, GrammarWs)
      x == RunEnd(s, w + Len(kw), GrammarWs)
      l == RunEnd(s, x + 1, GrammarListText)
  IN  IF /\ k > p /\ w > k /\ LitAt(s, w, kw) /\ x > w + Len(kw)
         /\ CharAt(s, x, "(") /\ CharAt(s, l, ")")
      THEN GrammarShape("set", Slice(s, p, k), kw, <<>>, Slice(s, x + 1, l), l + 1)
      ELSE NoShape

\* key ws* op ws* value at offset p
GrammarEqualityShape(s, p, op) ==
  LET k == RunEnd(s, p, KeyChars)
      w == RunEnd(s, k, GrammarWs)
      x == RunEnd(s, w + Len(op), GrammarWs)
      v == RunEnd(s, x, ValueChars)
  IN  IF k > p /\ LitAt(s, w, op) /\ v > x
      THEN GrammarShape("equality", Slice(s, p, k), op, Slice(s, x, v), <<>>, v)
      ELSE NoShape

\* The fragment that starts at offset p
GrammarFragment(s, p) ==
  LET k == RunEnd(s, p, KeyChars)
      n == RunEnd(s, p + 1, KeyChars)
      shapes == {GrammarSetShape(s, p, KwIn), GrammarSetShape(s, p, KwNotIn),
                 GrammarEqualityShape(s, p, <<"=">>),
                 GrammarEqualityShape(s, p, <<"=", "=">>),
                 GrammarEqualityShape(s, p, <<"!", "=">>)} \ {NoShape}
  IN  IF shapes # {} THEN CHOOSE f \in shapes : TRUE
      ELSE IF k > p THEN GrammarShape("key", Slice(s, p, k), <<>>, <<>>, <<>>, k)
      ELSE IF CharAt(s, p, "!") /\ n > p + 1
      THEN GrammarShape("not", Slice(s, p + 1, n), <<>>, <<>>, <<>>, n)
      ELSE NoShape

\* Every member of the list text matches [a-zA-Z_-]+
ValidList(text) == \A i \in 1..Len(text) : text[i] \in MemberChars \cup GrammarSeparators

\* The fragment is one of the six forms
ValidFragment(f) == f.form # "none" /\ (f.form = "set" => ValidList(f.list))

\* The expression the grammar gives the fragment
GrammarExpression(f) ==
  IF f.form = "set" /\ f.op = KwIn THEN In(f.key, GrammarMembers(f.list, 0))
  ELSE IF f.form = "set" THEN NotIn(f.key, GrammarMembers(f.list, 0))
  ELSE IF f.form = "equality" /\ f.op = <<"!", "=">> THEN NotEqual(f.key, f.value)
  ELSE IF f.form = "equality" THEN Equal(f.key, f.value)
  ELSE IF f.form = "key" THEN Exists(f.key)
  ELSE DoesNotExist(f.key)

\* The selector from offset p on: whether it is made only of fragments of the
\* six forms, each followed by a separator or the end, and their expressions
RECURSIVE GrammarSelector(_, _)
GrammarSelector(s, p) ==
  LET st == RunEnd(s, p, GrammarSeparators)
      f == GrammarFragment(s, st)
      rest == GrammarSelector(s, f.end)
  IN  IF st = Len(s) THEN [valid |-> TRUE, exprs |-> <<>>]
      ELSE IF ~ValidFragment(f) THEN [valid |-> FALSE, exprs |-> <<>>]
      ELSE IF f.end < Len(s) /\ s[f.end + 1] \notin GrammarSeparators
      THEN [valid |-> FALSE, exprs |-> <<>>]
      ELSE [valid |-> rest.valid, exprs |-> <<GrammarExpression(f)>> \o rest.exprs]

\* ------------------------------------------------------------ reading the history

Calls == 1..Len(results)

\* The offset the i-th call's fragment starts at: the cursor the call before
\* left, moved over the separators
CallStart(i) ==
  RunEnd(input, IF i = 1 THEN 0 ELSE results[i - 1].end, GrammarSeparators)

\* The caller has seen the whole input
Exhausted == Len(results) > 0 /\ results[Len(results)].tag = "None"

Ok(expr, start, end) == StepResult("Ok", expr, <<>>, start, end)
Err(text, start, end) == StepResult("Err", NoExpression, text, start, end)

\* The results that are not None
Produced(rs) == SelectSeq(rs, LAMBDA r : r.tag # "None")

\* All results of stepping over s from offset p, up to and without the None
RECURSIVE StepsFrom(_, _)
StepsFrom(s, p) ==
  LET r == parse_expression(s, p)
  IN  IF r.tag = "None" THEN <<>> ELSE <<r>> \o StepsFrom(s, r.end)

\* The result r with its span moved by d
Shifted(r, d) == [r EXCEPT !.start = @ + d, !.end = @ + d]
ShiftedAll(rs, d) == [i \in 1..Len(rs) |-> Shifted(rs[i], d)]

\* ------------------------------------------------------------ C1

\* The characters that start one of the six fragment patterns
PatternStarts == KeyChars \cup {"!"}

\* The i-th call found the cursor at a character that is neither a separator
\* nor the start of a pattern
StrayAt(i) ==
  /\ CallStart(i) < Len(input)
  /\ input[CallStart(i) + 1] \notin PatternStarts

\* What tests::expression_lexer asserts of its data, call by call
ExpressionLexerExpected ==
  <<Ok(Equal(<<"a">>, <<"b">>), 0, 4),
    Ok(Equal(<<"f", "o", "o", ".", "b", "a", "r", ".", "b", "a", "z", "/", "b", "-",
                "y", "_", ".", "6">>,
             <<"c", "_", "8", ".", "-", "z">>), 6, 31),
    Ok(NotEqual(<<"c">>, <<"d">>), 32, 36),
    Ok(In(<<"a">>, {<<"a">>, <<"b">>, <<"c">>}), 37, 50),
    Ok(NotIn(<<"a">>, {<<"a">>}), 52, 63),
    Ok(Exists(<<"c">>), 65, 66),
    Ok(DoesNotExist(<<"a">>), 67, 69),
    Ok(Exists(<<"a">>), 70, 71),
    Err(<<"(">>, 71, 72),
    Err(<<")">>, 72, 73),
    Ok(Exists(<<"d">>), 73, 74)>>

StrayParensExpected ==
  <<Ok(Exists(<<"a">>), 0, 1), Err(<<"(">>, 1, 2), Err(<<")">>, 2, 3),
    Ok(Exists(<<"d">>), 3, 4)>>

ErrorCalls == {i \in Calls : results[i].tag = "Err"}

FirstError == CHOOSE i \in ErrorCalls : \A j \in ErrorCalls : i <= j

\* The expressions of the results, in order
ExpressionsOf(rs) ==
  LET oks == SelectSeq(rs, LAMBDA r : r.tag = "Ok")
  IN  [i \in 1..Len(oks) |-> oks[i].expr]

\* C2: once try_from has returned and the step-by-step cursor has exhausted
\* the same input: if the k-th step is the first that returned an error,
\* try_from returned exactly that error (text and span) after exactly k calls
\* of parse_expression, its lexer left where that step left the cursor; if no
\* step returned an error, try_from returned Ok with the expressions of the
\* steps, in step order.
C2_OneShotAgainstSteps ==
  (returned.tag # "Running" /\ Exhausted) =>
    IF ErrorCalls # {}
    THEN /\ returned.tag = "Err"
         /\ returned.error = results[FirstError]
         /\ steps = FirstError
         /\ selector_end = results[FirstError].end
         /\ expressions = ExpressionsOf(SubSeq(results, 1, FirstError - 1))
    ELSE /\ returned.tag = "Ok"
         /\ expressions = ExpressionsOf(results)
         /\ steps = Len(Produced(results)) + 1

\* try_from has returned the first error of an input whose later fragments
\* parse: an expression before the error, an expression after it
C2_Witness ==
  /\ returned.tag = "Err"
  /\ Exhausted
  /\ Len(expressions) > 0
  /\ \E j \in Calls : j > FirstError /\ results[j].tag = "Ok"

\* ------------------------------------------------------------ C10

\* C10: every result that is not None covers a span [s, e) with
\* 0 <= s < e <= Len(input); each span starts at or after the end of the one
\* before; no more than Len(input) results are not None, so that the call
\* number Len(input) + 1 at the latest returns None; and after a None every
\* result is None.
C10_ForwardOnly ==
  /\ \A i \in Calls :
       results[i].tag # "None" =>
         /\ 0 <= results[i].start
         /\ results[i].start < results[i].end
         /\ results[i].end <= Len(input)
         /\ i > 1 => results[i].start >= results[i - 1].end
  /\ \A i \in Calls : i > Len(input) => results[i].tag = "None"
  /\ \A i \in Calls : \A j \in Calls :
       (i < j /\ results[i].tag = "None") => results[j] = results[i]

\* Two results with spans, an error among them, then None twice
C10_Witness ==
  /\ Len(results) >= 4
  /\ results[1].tag = "Ok"
  /\ results[2].tag = "Err"
  /\ results[Len(results) - 1].tag = "None"
  /\ results[Len(results)].tag = "None"

\* ------------------------------------------------------------ fragments of the history

\* The fragment the i-th call starts at
FragmentAt(i) == GrammarFragment(input, CallStart(i))

\* The fragment ends at a separator or at the end of the input
Delimited(f) == f.end = Len(input) \/ input[f.end + 1] \in GrammarSeparators

\* The i-th call returned the grammar's expression of its fragment, over the
\* fragment's span
ParsedAsGrammar(i) ==
  results[i] = Ok(GrammarExpression(FragmentAt(i)), CallStart(i), FragmentAt(i).end)

OnlyOf(text, cls) == \A j \in 1..Len(text) : text[j] \in cls

\* ------------------------------------------------------------ C6

BadMember(list) == \E j \in 1..Len(list) : list[j] \in Digits \cup {"."}

\* C7: a call that starts at a fragment key in (list) or key notin (list) with
\* a member holding a digit or a dot returns Err(StringParse(f, span)) with f
\* the text of the whole fragment, from the first character of the key to the
\* closing parenthesis, and span its byte range; the cursor is left after the
\* parenthesis.
C7_BadMember ==
  \A i \in Calls :
    (FragmentAt(i).form = "set" /\ BadMember(FragmentAt(i).list)) =>
      results[i] = Err(Slice(input, CallStart(i), FragmentAt(i).end),
                       CallStart(i), FragmentAt(i).end)

\* A list with a good member and a member with a digit, rejected whole, and
\* the key after it parsed
C7_Witness ==
  /\ Len(results) >= 2
  /\ FragmentAt(1).form = "set"
  /\ FragmentAt(1).key = <<"a">>
  /\ FragmentAt(1).list = <<"a", ",", "1">>
  /\ results[1].tag = "Err"
  /\ results[2].tag = "Ok"

\* ------------------------------------------------------------ C3

\* C3 as claimed: for a selector made only of fragments of the six forms,
\* separated by commas and whitespace, try_from returns Ok with one expression
\* per fragment, in the order of the fragments; for the empty string it
\* returns Ok with no expression.
C3_ValidSelectorParses ==
  (returned.tag # "Running" /\ GrammarSelector(input, 0).valid) =>
    /\ returned.tag = "Ok"
    /\ expressions = GrammarSelector(input, 0).exprs

\* ------------------------------------------------------------ C4

\* C4 as claimed, for keys of word characters: a call that starts at a
\* fragment key in (list) or key notin (list) whose list is a non-empty
\* sequence of members of [a-zA-Z_-]+ returns In(key, S), respectively
\* NotIn(key, S), with S the set of the members.
C4_MembersAsSet ==
  \A i \in Calls :
    (/\ FragmentAt(i).form = "set"
     /\ OnlyOf(FragmentAt(i).key, WordChars)
     /\ ValidList(FragmentAt(i).list)
     /\ GrammarMembers(FragmentAt(i).list, 0) # {}) => ParsedAsGrammar(i)

\* ------------------------------------------------------------ C5

\* C5 as claimed, for keys of word characters: a call that starts at key in ()
\* or key notin (), nothing between the parentheses, returns In(key, {}),
\* respectively NotIn(key, {}).
C5_EmptyList ==
  \A i \in Calls :
    (/\ FragmentAt(i).form = "set"
     /\ OnlyOf(FragmentAt(i).key, WordChars)
     /\ FragmentAt(i).list = <<>>) => ParsedAsGrammar(i)

\* ------------------------------------------------------------ C8

\* C8 as claimed: a call that starts at a bare key K of [-./\w]+ returns
\* Exists(K), and one that starts at K in (v) or K notin (v), v a member of
\* letters, returns In(K, {v}), respectively NotIn(K, {v}).
C8_AnyKey ==
  \A i \in Calls :
    (/\ Delimited(FragmentAt(i))
     /\ \/ FragmentAt(i).form = "key"
        \/ /\ FragmentAt(i).form = "set"
           /\ OnlyOf(FragmentAt(i).list, Letters)
           /\ FragmentAt(i).list # <<>>) => ParsedAsGrammar(i)

\* ------------------------------------------------------------ C9

\* The complete key text of the fragment the top-level tokenizer matched for
\* the i-th call: the run of [-./\w] at the start of the match, after the !
\* of a negation
MatchedKey(i) ==
  LET at == IF CharAt(input, results[i].start, "!")
            THEN results[i].start + 1 ELSE results[i].start
  IN  Slice(input, at, RunEnd(input, at, KeyChars))

\* C9 as claimed: the key of every expression a call returns is the complete
\* key text of the fragment the top-level tokenizer matched, never a proper
\* prefix of it; for a fragment !K the result is DoesNotExist(K) or an error.
C9_CompleteKey ==
  \A i \in Calls : results[i].tag = "Ok" => results[i].expr.key = MatchedKey(i)

====
